---- MODULE Spec2Model ----
(***************************************************************************)
(* Dungeon Pathfinder: the solver of src/src/solver.cpp (findPosition,     *)
(* isPassable, canPassDoor, collectKey, isValidPosition, bfsPath,          *)
(* reconstructKeyPath, bfsPathKeys) and the path validator of              *)
(* src/src/main.cpp, as a state machine over small rectangular grids.      *)
(*                                                                         *)
(* A grid is a sequence of rows, a row a sequence of one-character         *)
(* strings.  Coordinates are the code's 0-based (row, col); At() does the  *)
(* shift to TLA+'s 1-based sequences.                                      *)
(***************************************************************************)
EXTENDS Integers, Sequences, FiniteSets, TLC

\* ------------------------------------------------------------------ bounds
\* Largest number of rows of an input grid.
MaxRows == 2
\* Largest number of cells (rows * cols) of an input grid.
MaxCells == 5
\* Largest number of cells of a grid in the termination check.
MaxLiveCells == 4
\* Largest number of characters of a grid whose rows differ in length.
MaxRaggedCells == 4
\* Largest number of rows and of columns of a grid handed to findPosition or
\* isPassable.
MaxFindRows == 2
MaxFindCols == 2
\* Largest rows and cols argument handed to generateDungeon.
MaxGenDim == 6
\* Largest value drawn from the random number generator.
MaxRng == 6

\* ------------------------------------------------------------- characters
\* The symbols input grids are drawn from: wall, floor, start, exit, one key
\* and its door.
GridAlphabet == {"#", " ", "S", "E", "a", "A"}

\* The string terminator, which dungeon[row][col] yields when col is the
\* row's length.
NUL == "NUL"

\* The character codes the code's comparisons (cell >= 'A' && cell <= 'F')
\* work on.
Ord(ch) ==
    CASE ch = NUL -> 0
      [] ch = " " -> 32
      [] ch = "#" -> 35
      [] ch = "A" -> 65
      [] ch = "B" -> 66
      [] ch = "C" -> 67
      [] ch = "D" -> 68
      [] ch = "E" -> 69
      [] ch = "F" -> 70
      [] ch = "S" -> 83
      [] ch = "a" -> 97
      [] ch = "b" -> 98
      [] ch = "c" -> 99
      [] ch = "d" -> 100
      [] ch = "e" -> 101
      [] ch = "f" -> 102

\* ------------------------------------------------------------------ cells
\* struct Cell { int r, c; }
Cell(row, col) == [r |-> row, c |-> col]

\* struct KeyState { int row, col; int keyMask; }
KeyState(r, c, keys) == [row |-> r, col |-> c, keyMask |-> keys]

\* const int DIRECTIONS[4][2] = {{-1,0},{1,0},{0,-1},{0,1}}
DIRECTIONS == << <<-1, 0>>, <<1, 0>>, <<0, -1>>, <<0, 1>> >>

\* const int NUM_DIRECTIONS = 4
NUM_DIRECTIONS == 4

\* dungeon[row][col] with the code's 0-based indices.
At(dungeon, row, col) ==
    IF col < Len(dungeon[row + 1]) THEN dungeon[row + 1][col + 1] ELSE NUL

\* dungeon.size()
NumRows(dungeon) == Len(dungeon)

\* dungeon[0].size(): the width the bounds checks use.
NumCols(dungeon) == Len(dungeon[1])

\* Bit i of an int mask: (keyMask >> i) & 1
Bit(keyMask, i) == (keyMask \div (2 ^ i)) % 2

\* mask | (1 << i)
SetBit(keyMask, i) == IF Bit(keyMask, i) = 1 THEN keyMask ELSE keyMask + 2 ^ i

\* ---------------------------------------------------------------- helpers
\* A scan that keeps overwriting its answer instead of returning at the
\* first match: it ends with the last one.
findPosition_LastMatch(dungeon, target) ==
    LET scanned == UNION {{<<row, col>> : col \in 0 .. Len(dungeon[row + 1]) - 1} :
                            row \in 0 .. Len(dungeon) - 1}
        hits == {rc \in scanned : At(dungeon, rc[1], rc[2]) = target}
    IN  IF hits = {} THEN Cell(-1, -1)
        ELSE LET last == CHOOSE h \in hits :
                            \A g \in hits : h[1] > g[1] \/ (h[1] = g[1] /\ h[2] >= g[2])
             IN  Cell(last[1], last[2])

\* The two loops of findPosition from (row, col) on: rows in order, each row
\* to its own length, returning at the first match.
RECURSIVE findScan(_, _, _, _)
findScan(dungeon, target, row, col) ==
    IF ~(row < Len(dungeon)) THEN Cell(-1, -1)
    ELSE IF ~(col < Len(dungeon[row + 1])) THEN findScan(dungeon, target, row + 1, 0)
    ELSE IF At(dungeon, row, col) = target THEN Cell(row, col)
    ELSE findScan(dungeon, target, row, col + 1)

\* findPosition: the first match of the row-major scan, Cell(-1,-1) if none.
findPosition(dungeon, target) == findScan(dungeon, target, 0, 0)

\* isPassable without the exception made for the exit.
isPassable_ExitIsDoor(dungeon, row, col) ==
    IF row < 0 \/ row >= NumRows(dungeon) \/ col < 0 \/ col >= NumCols(dungeon)
    THEN FALSE
    ELSE LET cell == At(dungeon, row, col)
         IN  IF cell = "#" THEN FALSE
             ELSE IF Ord(cell) >= Ord("A") /\ Ord(cell) <= Ord("F")
                  THEN FALSE
                  ELSE TRUE

\* isPassable: in bounds, not '#', not a door A..F other than 'E'.
isPassable(dungeon, row, col) ==
    IF row < 0 \/ row >= NumRows(dungeon) \/ col < 0 \/ col >= NumCols(dungeon)
    THEN FALSE
    ELSE LET cell == At(dungeon, row, col)
         IN  IF cell = "#" THEN FALSE
             ELSE IF Ord(cell) >= Ord("A") /\ Ord(cell) <= Ord("F") /\ cell # "E"
                  THEN FALSE
                  ELSE TRUE

\* canPassDoor: true for a non-door; for a door, whether its key bit is set.
canPassDoor(door, keyMask) ==
    IF Ord(door) < Ord("A") \/ Ord(door) > Ord("F") THEN TRUE
    ELSE LET requiredKey == Ord(door) - Ord("A") + Ord("a")
             keyBit == requiredKey - Ord("a")
         IN  Bit(keyMask, keyBit) = 1

\* collectKey with the bit assigned instead of or-ed in.
collectKey_Overwrite(key, keyMask) ==
    IF Ord(key) < Ord("a") \/ Ord(key) > Ord("f") THEN keyMask
    ELSE 2 ^ (Ord(key) - Ord("a"))

\* collectKey: keyMask | (1 << (key - 'a')) for a key a..f, else keyMask.
collectKey(key, keyMask) ==
    IF Ord(key) < Ord("a") \/ Ord(key) > Ord("f") THEN keyMask
    ELSE SetBit(keyMask, Ord(key) - Ord("a"))

\* isValidPosition: in bounds and not a wall.
isValidPosition(dungeon, row, col) ==
    IF row < 0 \/ row >= NumRows(dungeon) \/ col < 0 \/ col >= NumCols(dungeon)
    THEN FALSE
    ELSE At(dungeon, row, col) # "#"

\* The guard both pathfinders open with: start.r == -1 || exit.r == -1.
MissingEndpoint_And(start, exit) == start.r = -1 /\ exit.r = -1
MissingEndpoint(start, exit) == start.r = -1 \/ exit.r = -1

\* ------------------------------------------------------------- basic BFS
\* reverse(path.begin(), path.end())
RECURSIVE ReverseSeq(_)
ReverseSeq(s) == IF s = <<>> THEN <<>> ELSE Append(ReverseSeq(Tail(s)), Head(s))

\* The loop of reconstructPath: follow parents from current back to start.
RECURSIVE walkCellParents(_, _, _, _)
walkCellParents(parentMap, start, current, path) ==
    IF current.r = start.r /\ current.c = start.c
    THEN ReverseSeq(Append(path, start))
    ELSE IF current \notin DOMAIN parentMap THEN <<>>
         ELSE walkCellParents(parentMap, start, parentMap[current], Append(path, current))

\* reconstructPath(parents, start, goal)
reconstructPath(parentMap, start, goal) == walkCellParents(parentMap, start, goal, <<>>)

\* The four cells around current, in the order of DIRECTIONS.
AroundCell(current) ==
    [i \in 1 .. NUM_DIRECTIONS |->
        Cell(current.r + DIRECTIONS[i][1], current.c + DIRECTIONS[i][2])]

\* getNeighbors: the passable ones among the four cells around current.
getNeighbors(dungeon, current) ==
    SelectSeq(AroundCell(current), LAMBDA n : isPassable(dungeon, n.r, n.c))

\* A completed search loop that takes its neighbours from isValidPosition
\* (walls only) instead of getNeighbors, so that it walks through doors.
RECURSIVE bfsSearch_ThroughDoors(_, _, _, _, _, _)
bfsSearch_ThroughDoors(dungeon, start, exit, queue, seen, parentMap) ==
    IF queue = <<>> THEN <<>>
    ELSE LET current == Head(queue)
         IN  IF current = exit THEN reconstructPath(parentMap, start, exit)
             ELSE LET fresh == SelectSeq(AroundCell(current),
                                         LAMBDA n : /\ isValidPosition(dungeon, n.r, n.c)
                                                    /\ n \notin seen)
                      found == {fresh[i] : i \in 1 .. Len(fresh)}
                  IN  bfsSearch_ThroughDoors(dungeon, start, exit,
                          Tail(queue) \o fresh, seen \cup found,
                          [x \in DOMAIN parentMap \cup found |->
                              IF x \in found THEN current ELSE parentMap[x]])

\* The main loop of bfsPath as the code has it: one iteration gives up and
\* returns the empty path; an empty queue falls through to the final
\* return of the empty path.
bfsMainLoop(dungeon, start, exit, bfsQueue) ==
    IF bfsQueue # <<>> THEN <<>> ELSE <<>>

\* A variant of bfsPath whose loop is filled in, but with doors walkable.
bfsPath_ThroughDoors(dungeon) ==
    LET start == findPosition(dungeon, "S")
        exit == findPosition(dungeon, "E")
    IN  IF MissingEndpoint(start, exit) THEN <<>>
        ELSE bfsSearch_ThroughDoors(dungeon, start, exit, <<start>>, {start}, <<>>)

\* A variant of bfsPath that answers with the two endpoints without searching.
bfsPath_EndpointsOnly(dungeon) ==
    LET start == findPosition(dungeon, "S")
        exit == findPosition(dungeon, "E")
    IN  IF MissingEndpoint(start, exit) THEN <<>> ELSE <<start, exit>>

\* bfsPath: find S and E, return empty if either is missing; the queue, the
\* visited set and the parent map are declared empty and nothing is pushed
\* before the loop.
bfsPath(dungeon) ==
    LET start == findPosition(dungeon, "S")
        exit == findPosition(dungeon, "E")
    IN  IF MissingEndpoint(start, exit) THEN <<>>
        ELSE bfsMainLoop(dungeon, start, exit, <<>>)

\* ----------------------------------------------------------- key-door BFS
\* The loop of reconstructKeyPath: follow parents from current back to start.
RECURSIVE walkParents(_, _, _, _)
walkParents(parentMap, startState, current, path) ==
    IF current = startState
    THEN ReverseSeq(Append(path, Cell(startState.row, startState.col)))
    ELSE IF current \notin DOMAIN parentMap THEN <<>>
         ELSE walkParents(parentMap, startState, parentMap[current],
                          Append(path, Cell(current.row, current.col)))

\* reconstructKeyPath(parents, start, goal)
reconstructKeyPath(parentMap, startState, goal) ==
    walkParents(parentMap, startState, goal, <<>>)

\* The guard in front of the door logic: every symbol in 'A'..'F' is skipped.
safetyDoorSkip_Removed(cellChar, keyMask) == FALSE
\* The guard letting the exit through: only the doors A, B, C, D, F skipped.
safetyDoorSkip_ExitLetThrough(cellChar, keyMask) ==
    Ord(cellChar) >= Ord("A") /\ Ord(cellChar) <= Ord("F") /\ cellChar # "E"
safetyDoorSkip(cellChar, keyMask) ==
    Ord(cellChar) >= Ord("A") /\ Ord(cellChar) <= Ord("F")

\* The mask given to the neighbour state: current.keyMask, unchanged.
newStateKeyMask_Toggle(cellChar, keyMask) ==
    IF Ord(cellChar) < Ord("a") \/ Ord(cellChar) > Ord("f") THEN keyMask
    ELSE LET b == Ord(cellChar) - Ord("a")
         IN  IF Bit(keyMask, b) = 1 THEN keyMask - 2 ^ b ELSE keyMask + 2 ^ b
newStateKeyMask(cellChar, keyMask) == keyMask

\* The body of the direction loop with the parent entry written outside the
\* visited test: a state seen again gets its predecessor overwritten.
exploreDirection_ParentOutsideTest(dungeon, current, i, st) ==
    LET newRow == current.row + DIRECTIONS[i][1]
        newCol == current.col + DIRECTIONS[i][2]
    IN  IF ~isValidPosition(dungeon, newRow, newCol) THEN st
        ELSE LET cellChar == At(dungeon, newRow, newCol)
             IN  IF safetyDoorSkip(cellChar, current.keyMask) THEN st
                 ELSE LET newState == KeyState(newRow, newCol,
                                               newStateKeyMask(cellChar, current.keyMask))
                          withParent == [x \in DOMAIN st.parents \cup {newState} |->
                                           IF x = newState THEN current ELSE st.parents[x]]
                      IN  IF newState \in st.visited
                          THEN [queue |-> st.queue, visited |-> st.visited,
                                parents |-> withParent]
                          ELSE [queue |-> Append(st.queue, newState),
                                visited |-> st.visited \cup {newState},
                                parents |-> withParent]

\* One pass of the body of the direction loop, for direction i (1-based), on
\* the search data st = [queue, visited, parents].
exploreDirection(dungeon, current, i, st) ==
    LET newRow == current.row + DIRECTIONS[i][1]
        newCol == current.col + DIRECTIONS[i][2]
    IN  IF ~isValidPosition(dungeon, newRow, newCol) THEN st
        ELSE LET cellChar == At(dungeon, newRow, newCol)
             IN  IF safetyDoorSkip(cellChar, current.keyMask) THEN st
                 ELSE LET newState == KeyState(newRow, newCol,
                                               newStateKeyMask(cellChar, current.keyMask))
                      IN  IF newState \in st.visited THEN st
                          ELSE [queue |-> Append(st.queue, newState),
                                visited |-> st.visited \cup {newState},
                                parents |-> [x \in DOMAIN st.parents \cup {newState} |->
                                               IF x = newState THEN current
                                               ELSE st.parents[x]]]

\* for (int i = 0; i < NUM_DIRECTIONS; i++) { ... }, from direction i on.
RECURSIVE exploreFrom(_, _, _, _)
exploreFrom(dungeon, current, i, st) ==
    IF i > NUM_DIRECTIONS THEN st
    ELSE exploreFrom(dungeon, current, i + 1, exploreDirection(dungeon, current, i, st))

\* The cells around current whose character isValidPosition reads: those
\* inside dungeon.size() rows and dungeon[0].size() columns.
cellsRead(dungeon, current) ==
    {rc \in {<<current.row + DIRECTIONS[i][1], current.col + DIRECTIONS[i][2]>> :
                i \in 1 .. NUM_DIRECTIONS} :
        /\ rc[1] >= 0 /\ rc[1] < NumRows(dungeon)
        /\ rc[2] >= 0 /\ rc[2] < NumCols(dungeon)}

\* bfsQueue.pop(), left out: the front state stays in the queue.
popFront_Keep(queue) == queue

\* bfsQueue.pop(): the queue without its front state.
popFront(queue) == Tail(queue)

\* -------------------------------------------------------------- the state
VARIABLES
    dungeon,    \* the grid handed to the pathfinders
    pc,         \* "bfsPath", "keysStart", "keysLoop" or "done"
    basicPath,  \* what bfsPath returned
    bfsQueue,   \* bfsPathKeys: queue<KeyState>
    visited,    \* bfsPathKeys: unordered_set<KeyState>
    parents,    \* bfsPathKeys: unordered_map<KeyState, KeyState>
    dequeued,   \* bfsPathKeys: number of states popped so far
    keyPath,    \* what bfsPathKeys returned
    pastEnd,    \* bfsPathKeys read a row at its length ("end") or beyond ("ub")
    \* a single call of one of the helper functions
    hpc,        \* "idle", "call" or "returned"
    hFn,        \* the helper called
    hGrid,      \* its grid argument
    hSym,       \* its character argument
    hMask,      \* its keyMask argument
    hRow,       \* its row argument
    hCol,       \* its col argument
    retCell,    \* the Cell it returned
    retBool,    \* the bool it returned
    retInt,     \* the int it returned
    \* a call of generateDungeon
    variant,    \* which of the two generator.cpp sources runs
    inRows,     \* the arguments as passed
    inCols,
    roomRate,
    rows,       \* the parameters after coercion
    cols,
    maze,       \* the grid being built
    gpc,        \* "idle", "start", "origin", "carve", "rooms", "place", "done", "solved", "ub"
    stack,      \* the active calls of generateMaze
    roomsLeft,  \* iterations of the room loop still to run
    punches,    \* iterations of the room loop run so far
    carvedMaze, \* the grid as carving left it
    oobAt,      \* where an access outside the grid happened, "none" if nowhere
    genPath     \* what bfsPath returned on the generated grid

solverVars == <<dungeon, pc, basicPath, bfsQueue, visited, parents, dequeued, keyPath,
                pastEnd>>
helperVars == <<hpc, hFn, hGrid, hSym, hMask, hRow, hCol, retCell, retBool, retInt>>
genVars == <<variant, inRows, inCols, roomRate, rows, cols, maze, gpc, stack,
             roomsLeft, punches, carvedMaze, oobAt, genPath>>
vars == <<solverVars, helperVars, genVars>>

\* No pathfinder call is under way.
SolverIdle ==
    /\ dungeon = <<>> /\ pc = "idle" /\ basicPath = <<>> /\ bfsQueue = <<>>
    /\ visited = {} /\ parents = <<>> /\ dequeued = 0 /\ keyPath = <<>>
    /\ pastEnd = "none"

\* No helper call is under way.
HelpersIdle ==
    /\ hpc = "idle" /\ hFn = "none" /\ hGrid = <<>> /\ hSym = " " /\ hMask = 0
    /\ hRow = 0 /\ hCol = 0
    /\ retCell = Cell(0, 0) /\ retBool = FALSE /\ retInt = 0

\* No generateDungeon call is under way.
GenIdle ==
    /\ variant = "none" /\ inRows = 0 /\ inCols = 0 /\ roomRate = 0
    /\ rows = 0 /\ cols = 0 /\ maze = <<>> /\ gpc = "idle" /\ stack = <<>>
    /\ roomsLeft = 0 /\ punches = 0 /\ carvedMaze = <<>> /\ oobAt = "none"
    /\ genPath = <<>>

\* The shapes of the input grids.
Shapes == {rc \in (1 .. MaxRows) \X (1 .. MaxCells) : rc[1] * rc[2] <= MaxCells}

Count(g, ch) ==
    Cardinality({rc \in (1 .. Len(g)) \X (1 .. Len(g[1])) : g[rc[1]][rc[2]] = ch})

\* Rectangular grids over GridAlphabet with at most one S and at most one E.
Grids ==
    UNION {{g \in [1 .. rc[1] -> [1 .. rc[2] -> GridAlphabet]] :
                Count(g, "S") <= 1 /\ Count(g, "E") <= 1} : rc \in Shapes}

Start == findPosition(dungeon, "S")
Exit == findPosition(dungeon, "E")
StartState == KeyState(Start.r, Start.c, 0)

Init ==
    /\ dungeon \in Grids
    /\ pc = "bfsPath"
    /\ basicPath = <<>>
    /\ bfsQueue = <<>>
    /\ visited = {}
    /\ parents = <<>>
    /\ dequeued = 0
    /\ keyPath = <<>>
    /\ pastEnd = "none"
    /\ HelpersIdle
    /\ GenIdle

\* The driver's call of bfsPath(dungeon).
CallBfsPath ==
    /\ pc = "bfsPath"
    /\ basicPath' = bfsPath(dungeon)
    /\ pc' = "keysStart"
    /\ UNCHANGED <<dungeon, bfsQueue, visited, parents, dequeued, keyPath, pastEnd>>
    /\ UNCHANGED <<helperVars, genVars>>

\* bfsPathKeys up to its loop: the endpoint check, then the start state is
\* pushed and marked visited.
KeysStart ==
    /\ pc = "keysStart"
    /\ IF MissingEndpoint(Start, Exit)
       THEN /\ keyPath' = <<>>
            /\ pc' = "done"
            /\ UNCHANGED <<bfsQueue, visited>>
       ELSE /\ bfsQueue' = <<StartState>>
            /\ visited' = {StartState}
            /\ pc' = "keysLoop"
            /\ UNCHANGED keyPath
    /\ UNCHANGED <<dungeon, basicPath, parents, dequeued, pastEnd>>
    /\ UNCHANGED <<helperVars, genVars>>

\* One iteration of while (!bfsQueue.empty()): pop, goal test, four directions.
\* A read of a row at its length yields the terminator and the search goes
\* on; after a read beyond that nothing is known of the run, which is left
\* at "ub".
KeysIterate ==
    /\ pc = "keysLoop"
    /\ bfsQueue # <<>>
    /\ LET current == Head(bfsQueue)
           reads == cellsRead(dungeon, current)
       IN  IF current.row = Exit.r /\ current.col = Exit.c
           THEN /\ keyPath' = reconstructKeyPath(parents, StartState, current)
                /\ pc' = "done"
                /\ bfsQueue' = popFront(bfsQueue)
                /\ UNCHANGED <<visited, parents, pastEnd>>
           ELSE IF \E rc \in reads : rc[2] > Len(dungeon[rc[1] + 1])
           THEN /\ pastEnd' = "ub"
                /\ pc' = "ub"
                /\ bfsQueue' = popFront(bfsQueue)
                /\ UNCHANGED <<visited, parents, keyPath>>
           ELSE LET st == exploreFrom(dungeon, current, 1,
                                      [queue |-> popFront(bfsQueue), visited |-> visited,
                                       parents |-> parents])
                IN  /\ bfsQueue' = st.queue
                    /\ visited' = st.visited
                    /\ parents' = st.parents
                    /\ pastEnd' = IF \E rc \in reads : rc[2] = Len(dungeon[rc[1] + 1])
                                  THEN "end" ELSE pastEnd
                    /\ UNCHANGED <<pc, keyPath>>
    /\ dequeued' = dequeued + 1
    /\ UNCHANGED <<dungeon, basicPath>>
    /\ UNCHANGED <<helperVars, genVars>>

\* The queue ran empty: return the empty path.
KeysExhausted ==
    /\ pc = "keysLoop"
    /\ bfsQueue = <<>>
    /\ keyPath' = <<>>
    /\ pc' = "done"
    /\ UNCHANGED <<dungeon, basicPath, bfsQueue, visited, parents, dequeued, pastEnd>>
    /\ UNCHANGED <<helperVars, genVars>>

Next == CallBfsPath \/ KeysStart \/ KeysIterate \/ KeysExhausted

Spec == Init /\ [][Next]_vars

\* The termination check runs the same calls on the grids of up to
\* MaxLiveCells cells; the one thread of the program keeps taking its next
\* step while it has one.
LiveShapes == {rc \in (1 .. MaxRows) \X (1 .. MaxLiveCells) : rc[1] * rc[2] <= MaxLiveCells}

LiveGrids ==
    UNION {{g \in [1 .. rc[1] -> [1 .. rc[2] -> GridAlphabet]] :
                Count(g, "S") <= 1 /\ Count(g, "E") <= 1} : rc \in LiveShapes}

InitLive ==
    /\ dungeon \in LiveGrids
    /\ pc = "bfsPath"
    /\ basicPath = <<>>
    /\ bfsQueue = <<>>
    /\ visited = {}
    /\ parents = <<>>
    /\ dequeued = 0
    /\ keyPath = <<>>
    /\ pastEnd = "none"
    /\ HelpersIdle
    /\ GenIdle

SpecLive == InitLive /\ [][Next]_vars /\ WF_vars(Next)

\* ------------------------------------------------------ helper calls
\* Every symbol of the dungeon alphabet.
AllSymbols ==
    {"#", " ", "S", "a", "b", "c", "d", "e", "f", "A", "B", "C", "D", "E", "F"}

\* The key masks: six bits.
KeyMasks == 0 .. 63

\* The symbols of the grids findPosition is tried on.
FindAlphabet == {"#", "S", "E"}

\* Rectangular grids of up to MaxFindRows x MaxFindCols, the empty grid and
\* grids of empty rows included; a symbol may occur any number of times.
FindGrids ==
    UNION {[1 .. nr -> [1 .. nc -> FindAlphabet]] :
              nr \in 0 .. MaxFindRows, nc \in 0 .. MaxFindCols}

\* The grids isPassable is tried on: up to MaxFindRows x MaxFindCols, one
\* cell holding any symbol of the alphabet, the others all floor or all wall.
PassGrids ==
    UNION {{[r \in 1 .. nr |-> [c \in 1 .. nc |->
                IF r = at[1] /\ c = at[2] THEN sym ELSE fill]] :
                at \in (1 .. nr) \X (1 .. nc), sym \in AllSymbols, fill \in {" ", "#"}} :
              nr \in 1 .. MaxFindRows, nc \in 1 .. MaxFindCols}

InitHelpers ==
    /\ SolverIdle
    /\ GenIdle
    /\ hpc = "call"
    /\ retCell = Cell(0, 0) /\ retBool = FALSE /\ retInt = 0
    /\ \/ /\ hFn = "findPosition" /\ hGrid \in FindGrids /\ hSym \in FindAlphabet
          /\ hMask = 0 /\ hRow = 0 /\ hCol = 0
       \/ /\ hFn \in {"canPassDoor", "collectKey"}
          /\ hGrid = <<>> /\ hSym \in AllSymbols /\ hMask \in KeyMasks
          /\ hRow = 0 /\ hCol = 0
       \/ /\ hFn = "isPassable" /\ hGrid \in PassGrids /\ hSym = " " /\ hMask = 0
          /\ hRow \in -1 .. Len(hGrid) /\ hCol \in -1 .. Len(hGrid[1])

CallIsPassable ==
    /\ hpc = "call" /\ hFn = "isPassable"
    /\ retBool' = isPassable(hGrid, hRow, hCol)
    /\ hpc' = "returned"
    /\ UNCHANGED <<hFn, hGrid, hSym, hMask, hRow, hCol, retCell, retInt>>
    /\ UNCHANGED <<solverVars, genVars>>

CallFindPosition ==
    /\ hpc = "call" /\ hFn = "findPosition"
    /\ retCell' = findPosition(hGrid, hSym)
    /\ hpc' = "returned"
    /\ UNCHANGED <<hFn, hGrid, hSym, hMask, hRow, hCol, retBool, retInt>>
    /\ UNCHANGED <<solverVars, genVars>>

CallCanPassDoor ==
    /\ hpc = "call" /\ hFn = "canPassDoor"
    /\ retBool' = canPassDoor(hSym, hMask)
    /\ hpc' = "returned"
    /\ UNCHANGED <<hFn, hGrid, hSym, hMask, hRow, hCol, retCell, retInt>>
    /\ UNCHANGED <<solverVars, genVars>>

CallCollectKey ==
    /\ hpc = "call" /\ hFn = "collectKey"
    /\ retInt' = collectKey(hSym, hMask)
    /\ hpc' = "returned"
    /\ UNCHANGED <<hFn, hGrid, hSym, hMask, hRow, hCol, retCell, retBool>>
    /\ UNCHANGED <<solverVars, genVars>>

NextHelpers == CallFindPosition \/ CallCanPassDoor \/ CallCollectKey \/ CallIsPassable

SpecHelpers == InitHelpers /\ [][NextHelpers]_vars

\* ------------------------------------------------------ maze generation
\* generator.cpp holds two generators: the starter one (recursiveBacktrack
\* left to be written, helpers addRandomRooms and placeStartAndExit) and the
\* completed one (generateMaze).  variant says which one a call runs:
\* "starter" or "solution".

\* vector<string>(rows, string(cols, '#'))
AllWalls(nr, nc) == [r \in 1 .. nr |-> [c \in 1 .. nc |-> "#"]]

\* grid[row][col] = ch
SetCell(grid, row, col, ch) == [grid EXCEPT ![row + 1][col + 1] = ch]

\* Whether (row, col) is a character of the allocated grid.
InGrid(grid, row, col) ==
    /\ 0 <= row /\ row < Len(grid)
    /\ 0 <= col /\ col < Len(grid[row + 1])

\* if (n % 2 == 0) n++
makeOdd(n) == IF n % 2 = 0 THEN n + 1 ELSE n

Max(a, b) == IF a > b THEN a ELSE b

\* The starter's dimensions: odd, then both raised to 5 if either is below.
starterDims(r, c) ==
    LET ro == makeOdd(r)
        co == makeOdd(c)
    IN  IF ro < 5 \/ co < 5 THEN <<Max(ro, 5), Max(co, 5)>> ELSE <<ro, co>>

\* The solution's dimensions: odd, no minimum.
solutionDims(r, c) == <<makeOdd(r), makeOdd(c)>>

\* addRandomRooms: roomsToAdd = ((rows * cols) / 4 * roomRate) / 100
starterRoomsToAdd(nr, nc, rate) == (((nr * nc) \div 4) * rate) \div 100

\* generateDungeon: extraRooms = ((rows-1)/2) * ((cols-1)/2) * roomRate / 100
solutionExtraRooms(nr, nc, rate) == ((((nr - 1) \div 2) * ((nc - 1) \div 2)) * rate) \div 100

\* addRandomRooms: the cell picked from two random numbers x and y.
starterRoomCell_NoMargin(nr, nc, x, y) == <<2 + (x % nr), 2 + (y % nc)>>
starterRoomCell(nr, nc, x, y) == <<2 + (x % (nr - 4)), 2 + (y % (nc - 4))>>

\* generateDungeon: the cell picked from two random numbers x and y.
solutionRoomCell(nr, nc, x, y) == <<x % nr, y % nc>>

\* addRandomRooms: if (maze[row][col] == '#') maze[row][col] = ' '
starterPunched(grid, cell) ==
    IF At(grid, cell[1], cell[2]) = "#" THEN SetCell(grid, cell[1], cell[2], " ") ELSE grid

\* generateDungeon: if (dungeon[r][c] == '#' && r % 2 == 1 && c % 2 == 1)
\*                     dungeon[r][c] = ' '
solutionPunched(grid, cell) ==
    IF At(grid, cell[1], cell[2]) = "#" /\ cell[1] % 2 = 1 /\ cell[2] % 2 = 1
    THEN SetCell(grid, cell[1], cell[2], " ") ELSE grid

\* const vector<pair<int,int>> DIRECTIONS = {{-2,0},{2,0},{0,-2},{0,2}}
MAZE_DIRECTIONS == << <<-2, 0>>, <<2, 0>>, <<0, -2>>, <<0, 2>> >>

\* isValidCell: strictly inside the border, on odd coordinates.
isValidCell(row, col, nr, nc) ==
    /\ row > 0 /\ row < nr - 1
    /\ col > 0 /\ col < nc - 1
    /\ row % 2 = 1 /\ col % 2 = 1

\* carvePassage: the target cell and the wall cell between become floor.
carvePassage(grid, fromRow, fromCol, toRow, toCol) ==
    LET wallRow == (fromRow + toRow) \div 2
        wallCol == (fromCol + toCol) \div 2
    IN  SetCell(SetCell(grid, toRow, toCol, " "), wallRow, wallCol, " ")

\* A call of generateMaze at (row, col).  Its position in its shuffled
\* direction list is not kept: a direction whose target is still wall has not
\* been tried (trying it would have carved the target), and a direction whose
\* target is invalid or already floor does nothing whenever it is tried.
Frame(row, col) == [row |-> row, col |-> col]

\* Whether direction d of the call at frame still carves: newRow, newCol is
\* a valid cell and still '#'.
carves(grid, frame, d, nr, nc) ==
    LET newRow == frame.row + MAZE_DIRECTIONS[d][1]
        newCol == frame.col + MAZE_DIRECTIONS[d][2]
    IN  isValidCell(newRow, newCol, nr, nc) /\ At(grid, newRow, newCol) = "#"

\* The interior cells holding ' ', in row-major order.
RowMajorBefore(p, q) == p[1] < q[1] \/ (p[1] = q[1] /\ p[2] < q[2])

InteriorOpen(grid) ==
    {rc \in (1 .. Len(grid) - 2) \X (1 .. Len(grid[1]) - 2) : At(grid, rc[1], rc[2]) = " "}

FirstOf(cells) == CHOOSE p \in cells : \A q \in cells : p = q \/ RowMajorBefore(p, q)
LastOf(cells) == CHOOSE p \in cells : \A q \in cells : p = q \/ RowMajorBefore(q, p)

\* placeStartAndExit with the two markers exchanged.
placeStartAndExit_Exchanged(grid) ==
    LET openCells == InteriorOpen(grid)
    IN  IF Cardinality(openCells) < 2 THEN grid
        ELSE SetCell(SetCell(grid, FirstOf(openCells)[1], FirstOf(openCells)[2], "E"),
                     LastOf(openCells)[1], LastOf(openCells)[2], "S")

\* placeStartAndExit: S on the first and E on the last open interior cell;
\* nothing with fewer than two of them.
placeStartAndExit(grid) ==
    LET openCells == InteriorOpen(grid)
    IN  IF Cardinality(openCells) < 2 THEN grid
        ELSE SetCell(SetCell(grid, FirstOf(openCells)[1], FirstOf(openCells)[2], "S"),
                     LastOf(openCells)[1], LastOf(openCells)[2], "E")

\* The end of the solution's generateDungeon: S at (1,1); E on the first ' '
\* met scanning from the bottom right, else at (rows-2, cols-2).
solutionPlace(grid, nr, nc) ==
    LET withS == SetCell(grid, 1, 1, "S")
        openCells == InteriorOpen(withS)
    IN  IF openCells # {}
        THEN SetCell(withS, LastOf(openCells)[1], LastOf(openCells)[2], "E")
        ELSE SetCell(withS, nr - 2, nc - 2, "E")

RngValues == 0 .. MaxRng

\* The roomRate arguments tried: none, the default, all, more than all.
RoomRates == {0, 20, 100, 150}

InitGen ==
    /\ SolverIdle
    /\ HelpersIdle
    /\ variant \in {"starter", "solution"}
    /\ inRows \in 0 .. MaxGenDim
    /\ inCols \in 0 .. MaxGenDim
    /\ roomRate \in RoomRates
    /\ rows = inRows /\ cols = inCols
    /\ maze = <<>> /\ carvedMaze = <<>>
    /\ gpc = "start"
    /\ stack = <<>>
    /\ roomsLeft = 0 /\ punches = 0
    /\ oobAt = "none"
    /\ genPath = <<>>

\* The starter's generateDungeon up to addRandomRooms: coerce, allocate; the
\* carving call is still to be written, so the grid stays all wall.
StarterAllocate ==
    /\ gpc = "start" /\ variant = "starter"
    /\ rows' = starterDims(rows, cols)[1]
    /\ cols' = starterDims(rows, cols)[2]
    /\ maze' = AllWalls(rows', cols')
    /\ carvedMaze' = maze'
    /\ roomsLeft' = starterRoomsToAdd(rows', cols', roomRate)
    /\ gpc' = "rooms"
    /\ UNCHANGED <<variant, inRows, inCols, roomRate, stack, punches, oobAt, genPath>>
    /\ UNCHANGED <<solverVars, helperVars>>

\* The solution's generateDungeon up to the carving origin: coerce, allocate.
SolutionAllocate ==
    /\ gpc = "start" /\ variant = "solution"
    /\ rows' = solutionDims(rows, cols)[1]
    /\ cols' = solutionDims(rows, cols)[2]
    /\ maze' = AllWalls(rows', cols')
    /\ gpc' = "origin"
    /\ UNCHANGED <<variant, inRows, inCols, roomRate, stack, roomsLeft, punches,
                   carvedMaze, oobAt, genPath>>
    /\ UNCHANGED <<solverVars, helperVars>>

\* dungeon[1][1] = ' ' and the call generateMaze(dungeon, 1, 1, ...).  On a
\* grid without a row 1 or a column 1 the write is outside the grid.
SolutionOrigin ==
    /\ gpc = "origin"
    /\ IF InGrid(maze, 1, 1)
       THEN /\ maze' = SetCell(maze, 1, 1, " ")
            /\ stack' = <<Frame(1, 1)>>
            /\ gpc' = "carve"
            /\ UNCHANGED oobAt
       ELSE /\ oobAt' = "origin"
            /\ gpc' = "ub"
            /\ UNCHANGED <<maze, stack>>
    /\ UNCHANGED <<variant, inRows, inCols, roomRate, rows, cols, roomsLeft, punches,
                   carvedMaze, genPath>>
    /\ UNCHANGED <<solverVars, helperVars>>

\* The for loop of the innermost generateMaze call comes to a direction
\* that carves (which one is the shuffle's choice): the passage is carved and
\* generateMaze is entered at the new cell.
MazeStep ==
    /\ gpc = "carve"
    /\ stack # <<>>
    /\ LET top == stack[Len(stack)]
       IN  \E d \in 1 .. 4 :
             LET newRow == top.row + MAZE_DIRECTIONS[d][1]
                 newCol == top.col + MAZE_DIRECTIONS[d][2]
             IN  /\ carves(maze, top, d, rows, cols)
                 /\ maze' = carvePassage(maze, top.row, top.col, newRow, newCol)
                 /\ stack' = Append(stack, Frame(newRow, newCol))
    /\ UNCHANGED <<variant, inRows, inCols, roomRate, rows, cols, gpc, roomsLeft, punches,
                   carvedMaze, oobAt, genPath>>
    /\ UNCHANGED <<solverVars, helperVars>>

\* The innermost generateMaze call has no direction left that carves and
\* returns; when the outermost returns, the room count is computed.
MazeReturn ==
    /\ gpc = "carve"
    /\ stack # <<>>
    /\ \A d \in 1 .. 4 : ~carves(maze, stack[Len(stack)], d, rows, cols)
    /\ stack' = SubSeq(stack, 1, Len(stack) - 1)
    /\ IF Len(stack) = 1
       THEN /\ gpc' = "rooms"
            /\ carvedMaze' = maze
            /\ roomsLeft' = solutionExtraRooms(rows, cols, roomRate)
       ELSE UNCHANGED <<gpc, carvedMaze, roomsLeft>>
    /\ UNCHANGED <<variant, inRows, inCols, roomRate, rows, cols, maze, punches, oobAt,
                   genPath>>
    /\ UNCHANGED <<solverVars, helperVars>>

\* One iteration of the room loop of addRandomRooms.
StarterPunch ==
    /\ gpc = "rooms" /\ variant = "starter"
    /\ roomsLeft > 0
    /\ \E cell \in {starterRoomCell(rows, cols, x, y) : x \in RngValues, y \in RngValues} :
              IF InGrid(maze, cell[1], cell[2])
              THEN /\ maze' = starterPunched(maze, cell)
                   /\ roomsLeft' = roomsLeft - 1
                   /\ punches' = punches + 1
                   /\ UNCHANGED <<gpc, oobAt>>
              ELSE /\ oobAt' = "rooms"
                   /\ gpc' = "ub"
                   /\ UNCHANGED <<maze, roomsLeft, punches>>
    /\ UNCHANGED <<variant, inRows, inCols, roomRate, rows, cols, stack, carvedMaze, genPath>>
    /\ UNCHANGED <<solverVars, helperVars>>

\* One iteration of the extra-room loop of the solution's generateDungeon.
SolutionPunch ==
    /\ gpc = "rooms" /\ variant = "solution"
    /\ roomsLeft > 0
    /\ \E cell \in {solutionRoomCell(rows, cols, x, y) : x \in RngValues, y \in RngValues} :
              IF InGrid(maze, cell[1], cell[2])
              THEN /\ maze' = solutionPunched(maze, cell)
                   /\ roomsLeft' = roomsLeft - 1
                   /\ punches' = punches + 1
                   /\ UNCHANGED <<gpc, oobAt>>
              ELSE /\ oobAt' = "rooms"
                   /\ gpc' = "ub"
                   /\ UNCHANGED <<maze, roomsLeft, punches>>
    /\ UNCHANGED <<variant, inRows, inCols, roomRate, rows, cols, stack, carvedMaze, genPath>>
    /\ UNCHANGED <<solverVars, helperVars>>

\* The room loop ends.
RoomsDone ==
    /\ gpc = "rooms"
    /\ ~(roomsLeft > 0)
    /\ gpc' = "place"
    /\ UNCHANGED <<variant, inRows, inCols, roomRate, rows, cols, maze, stack, roomsLeft,
                   punches, carvedMaze, oobAt, genPath>>
    /\ UNCHANGED <<solverVars, helperVars>>

\* placeStartAndExit(maze), and the starter's generateDungeon returns.
StarterPlace ==
    /\ gpc = "place" /\ variant = "starter"
    /\ maze' = placeStartAndExit(maze)
    /\ gpc' = "done"
    /\ UNCHANGED <<variant, inRows, inCols, roomRate, rows, cols, stack, roomsLeft, punches,
                   carvedMaze, oobAt, genPath>>
    /\ UNCHANGED <<solverVars, helperVars>>

\* S and E are placed, and the solution's generateDungeon returns.
SolutionPlace ==
    /\ gpc = "place" /\ variant = "solution"
    /\ maze' = solutionPlace(maze, rows, cols)
    /\ gpc' = "done"
    /\ UNCHANGED <<variant, inRows, inCols, roomRate, rows, cols, stack, roomsLeft, punches,
                   carvedMaze, oobAt, genPath>>
    /\ UNCHANGED <<solverVars, helperVars>>

\* row.find(ch) != string::npos for some row of the grid.
hasSymbol(grid, ch) ==
    \E r \in 1 .. Len(grid) : \E c \in 1 .. Len(grid[r]) : grid[r][c] = ch

\* The driver's bfsPath(smallDungeon) on the generated grid, reached when
\* the grid has a start and an exit.
SolveGenerated ==
    /\ gpc = "done"
    /\ hasSymbol(maze, "S") /\ hasSymbol(maze, "E")
    /\ genPath' = bfsPath(maze)
    /\ gpc' = "solved"
    /\ UNCHANGED <<variant, inRows, inCols, roomRate, rows, cols, maze, stack, roomsLeft,
                   punches, carvedMaze, oobAt>>
    /\ UNCHANGED <<solverVars, helperVars>>

NextGen ==
    \/ StarterAllocate \/ SolutionAllocate \/ SolutionOrigin \/ MazeStep \/ MazeReturn
    \/ StarterPunch \/ SolutionPunch \/ RoomsDone \/ StarterPlace \/ SolutionPlace
    \/ SolveGenerated

SpecGen == InitGen /\ [][NextGen]_vars

\* ------------------------------------------------------- the path validator
\* |x| as abs() computes it.
Abs(x) == IF x < 0 THEN -x ELSE x

\* validatePath of the test driver: non-empty, from S to E, every cell in
\* bounds and not '#', every step one cardinal move.
validatePath(grid, path) ==
    IF path = <<>> THEN FALSE
    ELSE LET start == findPosition(grid, "S")
             exit == findPosition(grid, "E")
         IN  IF start.r = -1 \/ exit.r = -1 THEN FALSE
             ELSE IF path[1] # start \/ path[Len(path)] # exit THEN FALSE
             ELSE \A i \in 1 .. Len(path) :
                    LET cell == path[i]
                    IN  /\ ~(cell.r < 0 \/ cell.r >= NumRows(grid)
                             \/ cell.c < 0 \/ cell.c >= NumCols(grid))
                        /\ At(grid, cell.r, cell.c) # "#"
                        /\ (i > 1 =>
                              LET prev == path[i - 1]
                                  dr == Abs(cell.r - prev.r)
                                  dc == Abs(cell.c - prev.c)
                              IN  (dr = 1 /\ dc = 0) \/ (dr = 0 /\ dc = 1))

\* ---------------------------------------------- reference graph semantics
\* What the grid means, independently of the solver: used to state the
\* claims, never by the actions.
DoorSymbols == {"A", "B", "C", "D", "F"}
KeySymbols == {"a", "b", "c", "d", "e", "f"}

\* The key that opens a door.
KeyOfDoor(door) ==
    CASE door = "A" -> "a" [] door = "B" -> "b" [] door = "C" -> "c"
      [] door = "D" -> "d" [] door = "F" -> "f"

Positions(grid) == (0 .. Len(grid) - 1) \X (0 .. Len(grid[1]) - 1)

Has(grid, ch) == \E p \in Positions(grid) : At(grid, p[1], p[2]) = ch

\* The position of a symbol that occurs in the grid (grids hold at most one
\* S and one E).
PosOf(grid, ch) == CHOOSE p \in Positions(grid) : At(grid, p[1], p[2]) = ch

Adjacent(p, q) == Abs(p[1] - q[1]) + Abs(p[2] - q[2]) = 1

Neighbours(grid, p) == {q \in Positions(grid) : Adjacent(p, q)}

\* Cells a walker may stand on: never '#'; doors only when doorsOpen.
Open(grid, q, doorsOpen) ==
    /\ At(grid, q[1], q[2]) # "#"
    /\ (doorsOpen \/ At(grid, q[1], q[2]) \notin DoorSymbols)

\* Layer-by-layer distance from the frontier to goal on the cell graph, -1
\* if goal cannot be reached.
RECURSIVE RefCellLayers(_, _, _, _, _, _)
RefCellLayers(grid, frontier, seen, goal, dist, doorsOpen) ==
    IF goal \in frontier THEN dist
    ELSE LET next == {q \in Positions(grid) \ seen :
                        /\ Open(grid, q, doorsOpen)
                        /\ \E p \in frontier : Adjacent(p, q)}
         IN  IF next = {} THEN -1
             ELSE RefCellLayers(grid, next, seen \cup next, goal, dist + 1, doorsOpen)

\* The graph distance from S to E over cardinal steps, -1 if there is none
\* (or S or E is missing).
RefCellDist(grid, doorsOpen) ==
    IF ~Has(grid, "S") \/ ~Has(grid, "E") THEN -1
    ELSE RefCellLayers(grid, {PosOf(grid, "S")}, {PosOf(grid, "S")},
                       PosOf(grid, "E"), 0, doorsOpen)

\* The moves of the (cell x key set) graph: never into '#', into a door only
\* with its key, and stepping on a key picks it up.
RefKeySucc(grid, n) ==
    {<<q, n[2] \cup (IF At(grid, q[1], q[2]) \in KeySymbols
                     THEN {At(grid, q[1], q[2])} ELSE {})>> :
        q \in {x \in Neighbours(grid, n[1]) :
                 /\ At(grid, x[1], x[2]) # "#"
                 /\ (At(grid, x[1], x[2]) \in DoorSymbols
                       => KeyOfDoor(At(grid, x[1], x[2])) \in n[2])}}

RECURSIVE RefKeyLayers(_, _, _, _, _)
RefKeyLayers(grid, frontier, seen, goal, dist) ==
    IF \E n \in frontier : n[1] = goal THEN dist
    ELSE LET next == (UNION {RefKeySucc(grid, n) : n \in frontier}) \ seen
         IN  IF next = {} THEN -1
             ELSE RefKeyLayers(grid, next, seen \cup next, goal, dist + 1)

\* The shortest distance from (S, no keys) to any state at E, -1 if none.
RefKeyDist(grid) ==
    IF ~Has(grid, "S") \/ ~Has(grid, "E") THEN -1
    ELSE RefKeyLayers(grid, {<<PosOf(grid, "S"), {}>>}, {<<PosOf(grid, "S"), {}>>},
                      PosOf(grid, "E"), 0)

\* Every door cell of the path comes after a cell holding its key.
DoorsAfterKeys(grid, path) ==
    \A i \in 1 .. Len(path) :
        At(grid, path[i].r, path[i].c) \in DoorSymbols =>
            \E j \in 1 .. i - 1 :
                At(grid, path[j].r, path[j].c) = KeyOfDoor(At(grid, path[i].r, path[i].c))

BasicDone == pc # "bfsPath"
KeysDone == pc = "done"

\* ------------------------------------------------------------ the claims
\* C1: on every grid whose E is reachable from S through cells that are
\* neither '#' nor a door, the path bfsPath returns has as many steps as
\* the graph distance from S to E.
C1_BfsPathLengthIsDistance ==
    (BasicDone /\ RefCellDist(dungeon, FALSE) >= 0)
        => Len(basicPath) - 1 = RefCellDist(dungeon, FALSE)

\* C2: on every grid whose E is reachable from S through non-wall, non-door
\* cells, bfsPath returns a non-empty path that passes validatePath.
C2_BfsPathFoundAndValid ==
    (BasicDone /\ RefCellDist(dungeon, FALSE) >= 0)
        => (basicPath # <<>> /\ validatePath(dungeon, basicPath))

\* No call of either pathfinder ever returns a cell: bfsPath never seeds its
\* queue, and bfsPathKeys skips 'E' with the doors, so no state at the exit
\* is ever enqueued.
NoPathEverReturned == basicPath = <<>> /\ keyPath = <<>>

\* C4: on a grid without 'S' or without 'E' both pathfinders return the
\* empty path, and bfsPathKeys starts no search (nothing is enqueued,
\* visited or dequeued).
C4_MissingEndpointEmpty ==
    (KeysDone /\ (~Has(dungeon, "S") \/ ~Has(dungeon, "E")))
        => /\ basicPath = <<>>
           /\ keyPath = <<>>
           /\ bfsQueue = <<>> /\ visited = {} /\ parents = <<>> /\ dequeued = 0

\* Both calls have returned on a grid that has S and open floor next to it,
\* but no E.
C4_Witness ==
    /\ KeysDone
    /\ Has(dungeon, "S") /\ ~Has(dungeon, "E")
    /\ \E q \in Neighbours(dungeon, PosOf(dungeon, "S")) : At(dungeon, q[1], q[2]) = " "
    /\ basicPath = <<>> /\ keyPath = <<>>

\* C5: on a grid that has S and E with no sequence of cardinal steps through
\* non-wall cells between them, bfsPath returns the empty path.
C5_UnsolvableEmpty ==
    (BasicDone /\ Has(dungeon, "S") /\ Has(dungeon, "E")
        /\ RefCellDist(dungeon, TRUE) = -1)
        => basicPath = <<>>

\* bfsPath has returned on a grid whose S and E are separated by a wall.
C5_Witness ==
    /\ BasicDone
    /\ Has(dungeon, "S") /\ Has(dungeon, "E")
    /\ RefCellDist(dungeon, TRUE) = -1
    /\ Has(dungeon, "#")
    /\ basicPath = <<>>

\* C6: on every grid whose E can be reached from S without entering '#' and
\* entering a door only after stepping on its key, bfsPathKeys returns a
\* non-empty path from S to E in which every door cell comes after the cell
\* of its key.
C6_KeysPathFound ==
    (KeysDone /\ RefKeyDist(dungeon) >= 0)
        => /\ keyPath # <<>>
           /\ keyPath[1] = findPosition(dungeon, "S")
           /\ keyPath[Len(keyPath)] = findPosition(dungeon, "E")
           /\ DoorsAfterKeys(dungeon, keyPath)

\* C7: the search of bfsPathKeys never enters a door whose key bit is unset
\* in the mask of the state it comes from, and in every returned path each
\* door cell is preceded by a cell holding its key.
C7_NoLockedDoorTraversed ==
    /\ \A s \in DOMAIN parents :
          At(dungeon, s.row, s.col) \in DoorSymbols =>
              Bit(parents[s].keyMask,
                  Ord(At(dungeon, s.row, s.col)) - Ord("A")) = 1
    /\ \A s \in visited : At(dungeon, s.row, s.col) \in DoorSymbols => s \in DOMAIN parents
    /\ DoorsAfterKeys(dungeon, keyPath)

\* The search has ended after expanding a state that has a door next to it
\* whose key bit is unset in the state's mask.
C7_Witness ==
    /\ KeysDone
    /\ \E s \in visited : \E q \in Neighbours(dungeon, <<s.row, s.col>>) :
          /\ At(dungeon, q[1], q[2]) \in DoorSymbols
          /\ Bit(s.keyMask, Ord(At(dungeon, q[1], q[2])) - Ord("A")) = 0
          /\ \A t \in visited : <<t.row, t.col>> # q

\* C8: on every grid solvable under the key/door rules, the path bfsPathKeys
\* returns has as many steps as the shortest distance from (S, no keys) to
\* a state at E in the (cell x key set) graph.
C8_KeysPathIsShortest ==
    (KeysDone /\ RefKeyDist(dungeon) >= 0)
        => Len(keyPath) - 1 = RefKeyDist(dungeon)

\* C9: whenever the search of bfsPathKeys reaches a cell next to 'E', with
\* whatever mask, a state at E is enqueued and the search returns a
\* non-empty path ending at E.
C9_ExitAcceptedOnPosition ==
    (KeysDone /\ Has(dungeon, "E")
        /\ \E s \in visited : Adjacent(<<s.row, s.col>>, PosOf(dungeon, "E")))
        => /\ \E t \in visited : <<t.row, t.col>> = PosOf(dungeon, "E")
           /\ keyPath # <<>>
           /\ keyPath[Len(keyPath)] = findPosition(dungeon, "E")

\* C10: the mask of every enqueued state holds every bit of the mask of its
\* predecessor state.
C10_MaskNeverLosesBit ==
    \A s \in DOMAIN parents :
        \A b \in 0 .. 5 : Bit(parents[s].keyMask, b) = 1 => Bit(s.keyMask, b) = 1

\* A state standing on a key cell has been enqueued from a predecessor, and
\* a state has been enqueued from that state in turn.
C10_Witness ==
    \E s \in DOMAIN parents :
        /\ At(dungeon, s.row, s.col) \in KeySymbols
        /\ \E t \in DOMAIN parents : parents[t] = s

\* C11: no path bfsPath returns holds a door cell (A, B, C, D or F), and on a
\* grid whose every route from S to E crosses a door bfsPath returns the
\* empty path, also when the key of the door can be reached.
C11_BfsPathAvoidsDoors ==
    BasicDone =>
        /\ \A i \in 1 .. Len(basicPath) :
              At(dungeon, basicPath[i].r, basicPath[i].c) \notin DoorSymbols
        /\ (RefCellDist(dungeon, FALSE) = -1 /\ RefCellDist(dungeon, TRUE) >= 0)
              => basicPath = <<>>

\* bfsPath has returned empty on a grid whose routes from S to E all cross a
\* door that a walker picking up the key could open.
C11_Witness ==
    /\ BasicDone
    /\ RefCellDist(dungeon, FALSE) = -1
    /\ RefCellDist(dungeon, TRUE) >= 0
    /\ RefKeyDist(dungeon) >= 0
    /\ basicPath = <<>>

Returned(fn) == hpc = "returned" /\ hFn = fn

\* Where a symbol occurs in a grid, row by row.
Occurrences(grid, ch) ==
    {rc \in UNION {{<<row, col>> : col \in 0 .. Len(grid[row + 1]) - 1} :
                      row \in 0 .. Len(grid) - 1} :
        grid[rc[1] + 1][rc[2] + 1] = ch}

\* C18: findPosition returns the first occurrence of the symbol in row-major
\* order (smallest row, then smallest column), and (-1,-1) exactly when the
\* symbol occurs nowhere, the empty grid included.
C18_FindPositionFirstMatch ==
    Returned("findPosition") =>
        LET occ == Occurrences(hGrid, hSym)
        IN  /\ (occ = {}) <=> (retCell = Cell(-1, -1))
            /\ occ # {} =>
                  /\ <<retCell.r, retCell.c>> \in occ
                  /\ \A o \in occ :
                        retCell.r < o[1] \/ (retCell.r = o[1] /\ retCell.c <= o[2])

\* findPosition has returned on a grid that holds the symbol more than once,
\* the first time after the first cell.
C18_Witness ==
    /\ Returned("findPosition")
    /\ Cardinality(Occurrences(hGrid, hSym)) >= 2
    /\ <<0, 0>> \notin Occurrences(hGrid, hSym)
    /\ retCell # Cell(-1, -1)

\* The bit a door asks for: 0 for 'A', 1 for 'B', ...
DoorIndex(door) ==
    CASE door = "A" -> 0 [] door = "B" -> 1 [] door = "C" -> 2
      [] door = "D" -> 3 [] door = "F" -> 5

\* The bit a key sets: 0 for 'a', 1 for 'b', ...
KeyIndex(key) ==
    CASE key = "a" -> 0 [] key = "b" -> 1 [] key = "c" -> 2
      [] key = "d" -> 3 [] key = "e" -> 4 [] key = "f" -> 5

\* C19: canPassDoor returns true for every symbol that is not a door (wall,
\* floor, S, the exit E, the keys), and for a door exactly when the door's
\* bit of keyMask is set.
C19_CanPassDoor ==
    Returned("canPassDoor") =>
        retBool = (IF hSym \in DoorSymbols THEN Bit(hMask, DoorIndex(hSym)) = 1 ELSE TRUE)

\* C20: collectKey returns keyMask unchanged for a symbol outside a-f; for a
\* key it returns keyMask with the key's bit set and every other bit as it
\* was; so it is idempotent and its result, within 0..63, holds every bit of
\* keyMask.
C20_CollectKey ==
    Returned("collectKey") =>
        /\ hSym \notin KeySymbols => retInt = hMask
        /\ hSym \in KeySymbols =>
              /\ Bit(retInt, KeyIndex(hSym)) = 1
              /\ \A b \in (0 .. 5) \ {KeyIndex(hSym)} : Bit(retInt, b) = Bit(hMask, b)
        /\ collectKey(hSym, retInt) = retInt
        /\ retInt \in KeyMasks
        /\ \A b \in 0 .. 5 : Bit(hMask, b) = 1 => Bit(retInt, b) = 1

\* collectKey has returned for a key whose bit was not set in a mask that
\* held other keys.
C20_Witness ==
    /\ Returned("collectKey")
    /\ hSym \in KeySymbols
    /\ Bit(hMask, KeyIndex(hSym)) = 0
    /\ hMask # 0
    /\ retInt # hMask

\* ------------------------------------------------ claims on generateDungeon

\* generateDungeon has returned its grid.
GenReturned == gpc \in {"done", "solved"}

\* The carving phase is over.
GenCarved == gpc \in {"rooms", "place", "done", "solved"}

\* C12: for rows >= 5, cols >= 5 and roomRate in 0..100, whatever the
\* random choices, the returned grid holds exactly one 'S' and exactly one
\* 'E'.
C12_ExactlyOneStartAndExit ==
    (GenReturned /\ inRows >= 5 /\ inCols >= 5 /\ roomRate \in 0 .. 100)
        => (Cardinality(Occurrences(maze, "S")) = 1 /\ Cardinality(Occurrences(maze, "E")) = 1)

\* C13: bfsPath applied to a grid returned by generateDungeon returns a
\* non-empty path.
C13_GeneratedGridSolved == gpc = "solved" => genPath # <<>>

FloorCells(grid) == {p \in Positions(grid) : At(grid, p[1], p[2]) = " "}

RECURSIVE FloorReach(_, _)
FloorReach(grid, seen) ==
    LET more == {q \in FloorCells(grid) \ seen : \E p \in seen : Adjacent(p, q)}
    IN  IF more = {} THEN seen ELSE FloorReach(grid, seen \cup more)

\* The floor cells are connected and have one edge fewer than cells: between
\* any two of them there is exactly one simple path.
FloorIsTree(grid) ==
    LET cells == FloorCells(grid)
        edges == {pq \in cells \X cells : Adjacent(pq[1], pq[2]) /\ RowMajorBefore(pq[1], pq[2])}
    IN  /\ cells # {}
        /\ FloorReach(grid, {CHOOSE p \in cells : TRUE}) = cells
        /\ Cardinality(edges) = Cardinality(cells) - 1

OddInterior(nr, nc) ==
    {rc \in (1 .. nr - 2) \X (1 .. nc - 2) : rc[1] % 2 = 1 /\ rc[2] % 2 = 1}

PerfectMaze(grid, nr, nc) ==
    /\ \A rc \in OddInterior(nr, nc) : At(grid, rc[1], rc[2]) = " "
    /\ FloorIsTree(grid)

\* C14: after the carving phase, before room punching and S/E placement,
\* every interior odd-coordinate cell is floor and the floor cells form a
\* tree.
C14_CarvedMazeIsTree == GenCarved => PerfectMaze(carvedMaze, rows, cols)

\* Supporting C14: what generateMaze carves is a perfect maze; the starter,
\* which carves nothing, is where C14 fails.
SolutionCarvesPerfectMaze ==
    (GenCarved /\ variant = "solution") => PerfectMaze(carvedMaze, rows, cols)

\* C15: the returned grid is rectangular with an odd number of rows and an
\* odd number of columns, each at least 5.
C15_OddDimensionsAtLeastFive ==
    GenReturned =>
        /\ Len(maze) % 2 = 1 /\ Len(maze) >= 5
        /\ \A r \in 1 .. Len(maze) : Len(maze[r]) % 2 = 1 /\ Len(maze[r]) >= 5
        /\ \A r \in 1 .. Len(maze) : Len(maze[r]) = Len(maze[1])

\* C16: for every input, those with rows or cols of 1, 2 or 3 included,
\* generateDungeon reads and writes no cell outside the allocated grid.
C16_NoAccessOutsideGrid == oobAt = "none"

\* The cells where two grids of the same shape differ.
Changed(old, new) == {p \in Positions(old) : At(old, p[1], p[2]) # At(new, p[1], p[2])}

\* C17: room punching addresses only cells inside the grid, and an
\* iteration changes nothing but one cell from '#' to ' ', for every
\* roomRate, those above 100 included; with roomRate 0 there is no iteration
\* and the grid after room punching is the carved maze.
C17_RoomPunchingSafe ==
    /\ [](oobAt # "rooms")
    /\ [][(gpc = "rooms" /\ maze' # maze) =>
            /\ Len(maze') = Len(maze)
            /\ \A r \in 1 .. Len(maze) : Len(maze'[r]) = Len(maze[r])
            /\ \A p \in Changed(maze, maze') :
                  At(maze, p[1], p[2]) = "#" /\ At(maze', p[1], p[2]) = " "]_vars
    /\ []((gpc = "place" /\ roomRate = 0) => (punches = 0 /\ maze = carvedMaze))

\* Room punching with a roomRate above 100 has run to its end and changed
\* the grid.
C17_Witness ==
    /\ gpc = "place"
    /\ roomRate > 100
    /\ punches > 0
    /\ maze # carvedMaze

\* ------------------------------------------------------ claim on isPassable

C22_KeyCellStatesHoldKey ==
    \A s \in visited :
        At(dungeon, s.row, s.col) \in KeySymbols
            => Bit(s.keyMask, KeyIndex(At(dungeon, s.row, s.col))) = 1

\* The states a step of the search appended to the queue.
Enqueued(old, new) ==
    IF old = <<>> THEN new ELSE SubSeq(new, Len(old), Len(new))

\* C23: each (row, col, keyMask) state is enqueued at most once; its
\* predecessor entry is written once, at first discovery, and never
\* overwritten; the start state never receives a predecessor.
C23_EnqueuedOnceParentKept ==
    /\ [](pc \in {"keysLoop", "done"} =>
            /\ \A i, j \in 1 .. Len(bfsQueue) : bfsQueue[i] = bfsQueue[j] => i = j
            /\ \A i \in 1 .. Len(bfsQueue) : bfsQueue[i] \in visited
            /\ StartState \notin DOMAIN parents
            /\ (visited # {} => DOMAIN parents = visited \ {StartState}))
    /\ [][/\ visited \subseteq visited'
          /\ \A s \in DOMAIN parents : s \in DOMAIN parents' /\ parents'[s] = parents[s]
          /\ pc = "keysLoop" =>
                LET added == Enqueued(bfsQueue, bfsQueue')
                IN  /\ \A i \in 1 .. Len(added) : added[i] \notin visited
                    /\ \A i, j \in 1 .. Len(added) : added[i] = added[j] => i = j]_vars

\* The search is over and some state was met again from a second
\* neighbour after its predecessor had been written.
C23_Witness ==
    /\ pc = "done"
    /\ \E s \in DOMAIN parents : \E t \in visited :
          /\ t # parents[s]
          /\ t.keyMask = s.keyMask
          /\ Adjacent(<<t.row, t.col>>, <<s.row, s.col>>)

\* Whether following predecessor links from s comes to the start state
\* within fuel links.
RECURSIVE ReachesStart(_, _)
ReachesStart(s, fuel) ==
    IF s = StartState THEN TRUE
    ELSE IF fuel = 0 \/ s \notin DOMAIN parents THEN FALSE
         ELSE ReachesStart(parents[s], fuel - 1)

\* C24: bfsPath and bfsPathKeys terminate: both calls return, the search
\* loop has popped at most rows x cols x 64 states, and from every
\* discovered state the predecessor links lead to the start state within as
\* many links as there are discovered states.
C24_SearchTerminates ==
    /\ <>(pc = "done")
    /\ [](dungeon # <<>> => dequeued <= NumRows(dungeon) * NumCols(dungeon) * 64)
    /\ [](\A s \in visited : ReachesStart(s, Cardinality(visited)))

\* The search loop ran until its queue was empty, having popped several
\* states, one of them two links away from the start.
C24_Witness ==
    /\ pc = "done"
    /\ bfsQueue = <<>>
    /\ dequeued >= 3
    /\ \E s \in DOMAIN parents : parents[s] # StartState

\* ------------------------------------- further claims on generateDungeon

\* The grids one iteration of the room loop can leave, over every pair of
\* random draws, from a grid inside which every draw lands.
PunchOnce(v, grid, nr, nc) ==
    {IF v = "starter" THEN starterPunched(grid, starterRoomCell(nr, nc, x, y))
                      ELSE solutionPunched(grid, solutionRoomCell(nr, nc, x, y)) :
        x \in RngValues, y \in RngValues}

\* The grids n iterations of the room loop can leave, from any of grids.
RECURSIVE PunchOutcomes(_, _, _, _, _)
PunchOutcomes(v, grids, nr, nc, n) ==
    IF n = 0 THEN grids
    ELSE PunchOutcomes(v, UNION {PunchOnce(v, g, nr, nc) : g \in grids}, nr, nc, n - 1)

\* The number of connected groups the given floor cells fall into.
RECURSIVE FloorGroups(_, _)
FloorGroups(grid, remaining) ==
    IF remaining = {} THEN 0
    ELSE 1 + FloorGroups(grid, remaining \ FloorReach(grid, {CHOOSE p \in remaining : TRUE}))

\* The floor cells contain a loop: more adjacencies than a forest has.
FloorHasLoop(grid) ==
    LET cells == FloorCells(grid)
        edges == {pq \in cells \X cells : Adjacent(pq[1], pq[2]) /\ RowMajorBefore(pq[1], pq[2])}
    IN  Cardinality(edges) > Cardinality(cells) - FloorGroups(grid, cells)

\* C25: when room punching starts with a room budget above zero on a carved
\* perfect maze of at least 5 x 5 (which has interior walls), some outcome
\* of the random draws converts a wall cell of the carved maze to floor and
\* leaves a grid whose floor cells contain a loop.
C25_PunchingCanMakeLoop ==
    (/\ gpc = "rooms" /\ punches = 0 /\ roomsLeft > 0
     /\ rows >= 5 /\ cols >= 5
     /\ PerfectMaze(carvedMaze, rows, cols))
        => \E g \in PunchOutcomes(variant, {carvedMaze}, rows, cols, roomsLeft) :
              g # carvedMaze /\ FloorHasLoop(g)

\* Supporting C25: the room loop of the solution's generateDungeon never
\* changes the carved maze.
SolutionPunchingChangesNothing ==
    (variant = "solution" /\ gpc \in {"rooms", "place"}) => maze = carvedMaze

\* An open cell off the border of the grid.
OpenNonBorder(grid, p) ==
    /\ p[1] >= 1 /\ p[1] <= Len(grid) - 2
    /\ p[2] >= 1 /\ p[2] <= Len(grid[1]) - 2
    /\ At(grid, p[1], p[2]) = " "

\* p is the first (dir = 1) or the last (dir = -1) open non-border cell of
\* the grid in row-major order.
OpenExtreme(grid, p, dir) ==
    /\ OpenNonBorder(grid, p)
    /\ \A q \in Positions(grid) :
          OpenNonBorder(grid, q) =>
              \/ dir * q[1] > dir * p[1]
              \/ (q[1] = p[1] /\ dir * q[2] >= dir * p[2])

\* C26: when the grid has at least two open interior cells after room
\* punching, placement puts 'S' on the first and 'E' on the last open
\* non-border cell in row-major order and changes no other cell.
C26_PlacementFirstAndLast ==
    [][(/\ gpc = "place" /\ gpc' = "done"
        /\ Cardinality({p \in Positions(maze) : OpenNonBorder(maze, p)}) >= 2)
       => /\ Len(maze') = Len(maze)
          /\ \A r \in 1 .. Len(maze) : Len(maze'[r]) = Len(maze[r])
          /\ \A p \in Positions(maze) :
                At(maze', p[1], p[2]) =
                    IF OpenExtreme(maze, p, 1) THEN "S"
                    ELSE IF OpenExtreme(maze, p, -1) THEN "E"
                    ELSE At(maze, p[1], p[2])]_vars

\* addRandomRooms left three or more open cells and placeStartAndExit has
\* placed both markers.
C26_Witness ==
    /\ gpc = "done"
    /\ variant = "starter"
    /\ hasSymbol(maze, "S") /\ hasSymbol(maze, "E")
    /\ FloorCells(maze) # {}

\* ------------------------------------------------ non-rectangular grids
\* The symbols of the grids with rows of differing lengths.
RaggedAlphabet == {"#", " ", "S", "E"}

\* The grids of nr rows holding at most cellsLeft characters in all.
RECURSIVE GridsWithin(_, _)
GridsWithin(nr, cellsLeft) ==
    IF nr = 0 THEN {<<>>}
    ELSE UNION {{<<row>> \o g : row \in [1 .. n -> RaggedAlphabet],
                                g \in GridsWithin(nr - 1, cellsLeft - n)} :
                  n \in 0 .. cellsLeft}

IsRagged(grid) == \E r \in 1 .. Len(grid) : Len(grid[r]) # Len(grid[1])

RaggedGrids ==
    {g \in UNION {GridsWithin(nr, MaxRaggedCells) : nr \in 2 .. MaxRows} :
        /\ IsRagged(g)
        /\ Cardinality(Occurrences(g, "S")) <= 1
        /\ Cardinality(Occurrences(g, "E")) <= 1}

InitRagged ==
    /\ dungeon \in RaggedGrids
    /\ pc = "bfsPath"
    /\ basicPath = <<>>
    /\ bfsQueue = <<>>
    /\ visited = {}
    /\ parents = <<>>
    /\ dequeued = 0
    /\ keyPath = <<>>
    /\ pastEnd = "none"
    /\ HelpersIdle
    /\ GenIdle

SpecRagged == InitRagged /\ [][Next]_vars

\* C27: on a grid with rows of differing lengths bfsPath and bfsPathKeys
\* fail with an explicit error, so neither returns a path, and no character
\* is read at a column index at or beyond the end of its row.
C27_RaggedGridRejected ==
    IsRagged(dungeon) =>
        /\ pastEnd = "none"
        /\ pc \notin {"keysStart", "keysLoop", "done"}

\* Supporting C27: bfsPathKeys does read beyond the end of a row.
NeverReadsBeyondRow == pastEnd # "ub"

\* ------------------------------------------ the shape of generated grids

\* generateDungeon was called with odd rows >= 5 and odd cols >= 5, or with
\* the even numbers below them: both definitions begin by incrementing even
\* arguments, so the call with n - 1 is the call with odd n.
OddSizeAtLeastFive == makeOdd(inRows) >= 5 /\ makeOdd(inCols) >= 5

\* Every border cell and every cell on an even row and an even column is
\* '#', and the grid holds only '#', ' ', 'S' and 'E'.
WalledLattice(grid) ==
    \A p \in Positions(grid) :
        /\ At(grid, p[1], p[2]) \in {"#", " ", "S", "E"}
        /\ (p[1] = 0 \/ p[1] = Len(grid) - 1 \/ p[2] = 0 \/ p[2] = Len(grid[1]) - 1)
              => At(grid, p[1], p[2]) = "#"
        /\ (p[1] % 2 = 0 /\ p[2] % 2 = 0) => At(grid, p[1], p[2]) = "#"

SolutionWalledLattice ==
    (GenReturned /\ OddSizeAtLeastFive /\ variant = "solution") => WalledLattice(maze)

\* The cells joined to those of seen by cardinally adjacent non-wall cells.
RECURSIVE NonWallReach(_, _)
NonWallReach(grid, seen) ==
    LET more == {q \in Positions(grid) \ seen :
                    At(grid, q[1], q[2]) # "#" /\ \E p \in seen : Adjacent(p, q)}
    IN  IF more = {} THEN seen ELSE NonWallReach(grid, seen \cup more)

\* The 'E' cell is joined to the 'S' cell.
ExitJoinedToStart(grid) ==
    \A e \in Occurrences(grid, "E") :
        e \in NonWallReach(grid, Occurrences(grid, "S"))

\* C30: in every grid returned for odd rows >= 5 and cols >= 5, the 'E' cell
\* is connected to the 'S' cell by cardinally adjacent non-wall cells.
C30_ExitConnectedToStart ==
    (GenReturned /\ OddSizeAtLeastFive) => ExitJoinedToStart(maze)

\* Supporting C30: in the grids of the solution's generateDungeon there is
\* an 'E', and it is joined to the 'S'.
SolutionExitConnected ==
    (GenReturned /\ OddSizeAtLeastFive /\ variant = "solution")
        => (Occurrences(maze, "E") # {} /\ ExitJoinedToStart(maze))

\* ---------------------------------------- the two pathfinders compared

\* The grid holds no key and no door.
NoKeyNoDoor(grid) ==
    \A p \in Positions(grid) : At(grid, p[1], p[2]) \notin (KeySymbols \cup DoorSymbols)

\* C29: on every grid without key and door symbols bfsPathKeys and bfsPath
\* agree: both return the empty path, or both return non-empty paths of the
\* same length.
C29_PathfindersAgree ==
    (KeysDone /\ NoKeyNoDoor(dungeon)) =>
        \/ basicPath = <<>> /\ keyPath = <<>>
        \/ basicPath # <<>> /\ keyPath # <<>> /\ Len(basicPath) = Len(keyPath)

\* Both pathfinders have returned on a grid without keys and doors whose
\* exit can be walked to from the start over two or more steps.
C29_Witness ==
    /\ KeysDone
    /\ NoKeyNoDoor(dungeon)
    /\ RefCellDist(dungeon, FALSE) >= 2
    /\ dequeued >= 2

====
